---- MODULE Spec2Model ----
(***************************************************************************)
(* The recipe annotation tools of chef-ai: identify_cooking_actions,       *)
(* extract_durations, generate_video_prompt, and the sequential crew that  *)
(* drives them (src/extractor.py, src/processor.py).                       *)
(*                                                                         *)
(* A Python str is a sequence of one-character strings.  A JSON document   *)
(* handed to a tool is a record that says how json.loads answers and what  *)
(* the loaded value holds.                                                 *)
(***************************************************************************)
EXTENDS Integers, Sequences, FiniteSets

VARIABLES
    recipe_json_str,   \* the argument of identify_cooking_actions / extract_durations
    ingredients_json,  \* the ingredients_json argument of generate_video_prompt
    actions,           \* what identify_cooking_actions returned
    durations,         \* what extract_durations returned
    prompt,            \* what generate_video_prompt returned
    task,              \* the crew's position in its task list
    text               \* what extract_text_from_image returned

vars == <<recipe_json_str, ingredients_json, actions, durations, prompt, task, text>>

(***************************************************************************)
(* Bounds of the model.                                                    *)
(***************************************************************************)
MaxFrags == 3        \* fragments in all the steps of one recipe (annotators)
MaxSteps == 2        \* steps in one recipe (annotators)
MaxPromptFrags == 3  \* fragments in the step handed to generate_video_prompt
MaxIngredients == 2  \* records in the ingredient list

(***************************************************************************)
(* Characters: str.lower(), \d, \s, \w of Python's re on str patterns.     *)
(***************************************************************************)
UpperChars ==
    <<"A", "B", "C", "D", "E", "F", "G", "H", "I", "J", "K", "L", "M", "N",
      "O", "P", "Q", "R", "S", "T", "U", "V", "W", "X", "Y", "Z", "É">>

LowerChars ==
    <<"a", "b", "c", "d", "e", "f", "g", "h", "i", "j", "k", "l", "m", "n",
      "o", "p", "q", "r", "s", "t", "u", "v", "w", "x", "y", "z", "é">>

DigitChars == <<"0", "1", "2", "3", "4", "5", "6", "7", "8", "9">>

Range(f) == {f[i] : i \in DOMAIN f}

UpperSet == Range(UpperChars)

DigitSet == Range(DigitChars)

WordCharSet == Range(LowerChars) \cup Range(UpperChars) \cup Range(DigitChars) \cup {"_"}

\* the lowercase of every uppercase character
LowerOf == [c \in UpperSet |-> LowerChars[CHOOSE k \in DOMAIN UpperChars : UpperChars[k] = c]]

LowerChar(c) == IF c \in UpperSet THEN LowerOf[c] ELSE c

\* str.lower()
Lower(s) == [i \in 1..Len(s) |-> LowerChar(s[i])]

\* \d
IsDigit(c) == c \in DigitSet

\* \s
IsSpace(c) == c = " "

\* \w: letters, digits and the underscore
IsWordChar(c) == c \in WordCharSet

\* whether needle sits in hay at offset i (hay[i+1 .. i+Len(needle)])
OccursAt(hay, needle, i) ==
    /\ i + Len(needle) <= Len(hay)
    /\ \A k \in 1..Len(needle) : hay[i + k] = needle[k]

\* Python's `needle in hay` on two str
Contains(hay, needle) == \E i \in 0..Len(hay) : OccursAt(hay, needle, i)

\* \b at offset p of s: exactly one of s[p], s[p+1] is a word character,
\* the outside of the string counting as a non-word character
WordBoundary(s, p) ==
    LET before == p >= 1 /\ p <= Len(s) /\ IsWordChar(s[p])
        after == p + 1 >= 1 /\ p + 1 <= Len(s) /\ IsWordChar(s[p + 1])
    IN  before # after

\* SearchWord without the two \b: a plain substring search
SearchWordNoBoundary(s, verb) == Contains(s, verb)

\* re.search(r'\b' + verb + r'\b', s)
SearchWord(s, verb) ==
    \E i \in 0..Len(s) :
        /\ OccursAt(s, verb, i)
        /\ WordBoundary(s, i)
        /\ WordBoundary(s, i + Len(verb))

(***************************************************************************)
(* The vocabularies.                                                       *)
(***************************************************************************)
\* cooking_verbs of identify_cooking_actions
cooking_verbs ==
    <<<<"c", "h", "o", "p">>,
      <<"d", "i", "c", "e">>,
      <<"s", "l", "i", "c", "e">>,
      <<"m", "i", "n", "c", "e">>,
      <<"g", "r", "a", "t", "e">>,
      <<"m", "i", "x">>,
      <<"s", "t", "i", "r">>,
      <<"b", "e", "a", "t">>,
      <<"w", "h", "i", "s", "k">>,
      <<"f", "o", "l", "d">>,
      <<"b", "a", "k", "e">>,
      <<"r", "o", "a", "s", "t">>,
      <<"g", "r", "i", "l", "l">>,
      <<"b", "o", "i", "l">>,
      <<"s", "i", "m", "m", "e", "r">>,
      <<"f", "r", "y">>,
      <<"s", "a", "u", "t", "é">>,
      <<"s", "t", "e", "a", "m">>,
      <<"p", "o", "a", "c", "h">>,
      <<"m", "a", "r", "i", "n", "a", "t", "e">>,
      <<"s", "e", "a", "s", "o", "n">>,
      <<"s", "p", "r", "i", "n", "k", "l", "e">>,
      <<"p", "o", "u", "r">>,
      <<"d", "r", "i", "z", "z", "l", "e">>,
      <<"b", "l", "e", "n", "d">>,
      <<"p", "u", "r", "e", "e">>>>

\* cooking_verbs of generate_video_prompt: the list stops after "steam"
prompt_cooking_verbs ==
    <<<<"c", "h", "o", "p">>,
      <<"d", "i", "c", "e">>,
      <<"s", "l", "i", "c", "e">>,
      <<"m", "i", "n", "c", "e">>,
      <<"g", "r", "a", "t", "e">>,
      <<"m", "i", "x">>,
      <<"s", "t", "i", "r">>,
      <<"b", "e", "a", "t">>,
      <<"w", "h", "i", "s", "k">>,
      <<"f", "o", "l", "d">>,
      <<"b", "a", "k", "e">>,
      <<"r", "o", "a", "s", "t">>,
      <<"g", "r", "i", "l", "l">>,
      <<"b", "o", "i", "l">>,
      <<"s", "i", "m", "m", "e", "r">>,
      <<"f", "r", "y">>,
      <<"s", "a", "u", "t", "é">>,
      <<"s", "t", "e", "a", "m">>>>

\* the alternatives of group 2 of time_pattern, in the order written
time_units ==
    <<<<"m", "i", "n", "u", "t", "e">>,
      <<"m", "i", "n", "u", "t", "e", "s">>,
      <<"m", "i", "n", "s">>,
      <<"m", "i", "n">>,
      <<"h", "o", "u", "r">>,
      <<"h", "o", "u", "r", "s">>,
      <<"h", "r">>,
      <<"h", "r", "s">>>>

(***************************************************************************)
(* time_pattern:                                                           *)
(*   (\d+)(?:\s*-\s*\d+)?\s*(minute|minutes|mins|min|hour|hours|hr|hrs)    *)
(* under re.IGNORECASE.  Offsets count the characters before a position;   *)
(* a match is [start, g1_end, g2_start, end] with s[start+1 .. end] the    *)
(* matched text.                                                           *)
(***************************************************************************)
RECURSIVE DigitRunEnd(_, _)
\* \d+ / \d*, greedy: the offset after the longest run of digits from p
DigitRunEnd(s, p) ==
    IF p < Len(s) /\ IsDigit(s[p + 1]) THEN DigitRunEnd(s, p + 1) ELSE p

RECURSIVE SpaceRunEnd(_, _)
\* \s*, greedy
SpaceRunEnd(s, p) ==
    IF p < Len(s) /\ IsSpace(s[p + 1]) THEN SpaceRunEnd(s, p + 1) ELSE p

\* the alternation at offset p: the first alternative, in the order written,
\* that matches there ignoring case; 0 when none does
UnitAt(s, p) ==
    LET hits == {k \in DOMAIN time_units :
                    /\ p + Len(time_units[k]) <= Len(s)
                    /\ \A j \in 1..Len(time_units[k]) :
                          LowerChar(s[p + j]) = time_units[k][j]}
    IN  IF hits = {} THEN 0
        ELSE CHOOSE k \in hits : \A h \in hits : k <= h

NoMatch == [found |-> FALSE, start |-> 0, g1_end |-> 0, g2_start |-> 0, end |-> 0]

\* the pattern tried at offset p.  Every quantifier is greedy and none can
\* succeed on a shorter run (what follows a shortened run is a digit or a
\* space, which neither "-" nor a unit begins with), so the longest runs
\* decide; the optional range is tried before its absence.
MatchAt(s, p) ==
    LET g1 == DigitRunEnd(s, p)
        dash == SpaceRunEnd(s, g1)
        hi == SpaceRunEnd(s, dash + 1)
        hi_end == DigitRunEnd(s, hi)
        ranged ==
            /\ dash < Len(s) /\ s[dash + 1] = "-"
            /\ hi_end > hi
            /\ UnitAt(s, SpaceRunEnd(s, hi_end)) # 0
        u == IF ranged THEN SpaceRunEnd(s, hi_end) ELSE SpaceRunEnd(s, g1)
        k == UnitAt(s, u)
    IN  IF g1 > p /\ k # 0
        THEN [found |-> TRUE, start |-> p, g1_end |-> g1, g2_start |-> u,
              end |-> u + Len(time_units[k])]
        ELSE NoMatch

RECURSIVE FindIterFrom(_, _)
\* re.finditer: the leftmost match from p on, then on from its end
FindIterFrom(s, p) ==
    IF p >= Len(s) THEN <<>>
    ELSE LET m == MatchAt(s, p)
         IN  IF m.found THEN <<m>> \o FindIterFrom(s, m.end)
             ELSE FindIterFrom(s, p + 1)

\* re.finditer(time_pattern, step, re.IGNORECASE)
FindIter(s) == FindIterFrom(s, 0)

\* s[from+1 .. to]
Slice(s, from, to) == [i \in 1..(to - from) |-> s[from + i]]

DigitValue(c) == (CHOOSE k \in DOMAIN DigitChars : DigitChars[k] = c) - 1

RECURSIVE IntOf(_)
\* int() of a str of digits
IntOf(ds) ==
    IF Len(ds) = 0 THEN 0
    ELSE 10 * IntOf(SubSeq(ds, 1, Len(ds) - 1)) + DigitValue(ds[Len(ds)])

StartsWith(s, prefix) == OccursAt(s, prefix, 0)

(***************************************************************************)
(* What a tool hands back.  Every tool body is one try block whose         *)
(* `except Exception` returns an f-string, so a call always returns a str: *)
(* the JSON text of the result, or "Error ...: <the exception>".           *)
(***************************************************************************)
NotCalled == [outcome |-> "not_called", type |-> "none", form |-> "none",
              error |-> "none", value |-> <<>>]

\* return json.dumps(value)
ReturnJson(value) == [outcome |-> "returned", type |-> "str", form |-> "json",
                      error |-> "none", value |-> value]

\* return f"Error ...: {str(e)}"
ReturnError(e) == [outcome |-> "returned", type |-> "str",
                   form |-> "error_message", error |-> e, value |-> <<>>]

\* a JSON string
Str(chars) == [type |-> "str", chars |-> chars]

\* a JSON number
Num == [type |-> "num", chars |-> <<>>]

\* what iterating recipe_json["steps"] yields: the items of a list, the
\* one-character strings of a str
StepsItems(r) ==
    IF r.steps_type = "str"
    THEN [i \in 1..Len(r.steps_str) |-> Str(<<r.steps_str[i]>>)]
    ELSE r.steps

\* the exception json.loads, recipe_json["steps"] or enumerate raises
StepsError(r) ==
    IF r.json = "invalid" THEN "JSONDecodeError"
    ELSE IF r.json # "object" THEN "TypeError"
    ELSE IF ~r.has_steps THEN "KeyError"
    ELSE IF r.steps_type \notin {"list", "str"} THEN "TypeError"
    ELSE "none"

\* the inner loop of identify_cooking_actions: the verbs found in step i,
\* in the order of cooking_verbs
StepActions(step, i) ==
    LET s == Lower(step)
        tag(k) == [action |-> cooking_verbs[k], step_number |-> i,
                   full_instruction |-> step]
        hit(t) == SearchWord(s, t.action)
    IN  SelectSeq([k \in DOMAIN cooking_verbs |-> tag(k)], hit)

RECURSIVE ActionsFrom(_, _)
\* the outer loop of identify_cooking_actions from item i on
ActionsFrom(items, i) ==
    IF i > Len(items) THEN <<>>
    ELSE StepActions(items[i].chars, i) \o ActionsFrom(items, i + 1)

identify_cooking_actions(r) ==
    IF StepsError(r) # "none" THEN ReturnError(StepsError(r))
    ELSE IF \E i \in DOMAIN StepsItems(r) : StepsItems(r)[i].type # "str"
    THEN ReturnError("AttributeError")
    ELSE ReturnJson(ActionsFrom(StepsItems(r), 1))

\* ToMinutes without the "hr" and "hrs" tests
ToMinutesHourOnly(time_value, unit) ==
    IF StartsWith(unit, <<"h", "o", "u", "r">>) THEN time_value * 60 ELSE time_value

\* the conversion to minutes of extract_durations
ToMinutes(time_value, unit) ==
    IF \/ StartsWith(unit, <<"h", "o", "u", "r">>)
       \/ unit = <<"h", "r">>
       \/ unit = <<"h", "r", "s">>
    THEN time_value * 60
    ELSE time_value

\* the tag extract_durations appends for match m of step i
DurationTag(step, i, m) ==
    [step_number |-> i,
     duration_minutes |->
         ToMinutes(IntOf(Slice(step, m.start, m.g1_end)),
                   Lower(Slice(step, m.g2_start, m.end))),
     original_text |-> Slice(step, m.start, m.end),
     full_instruction |-> step]

\* the inner loop of extract_durations
StepDurations(step, i) ==
    LET ms == FindIter(step)
    IN  [k \in DOMAIN ms |-> DurationTag(step, i, ms[k])]

RECURSIVE DurationsFrom(_, _)
DurationsFrom(items, i) ==
    IF i > Len(items) THEN <<>>
    ELSE StepDurations(items[i].chars, i) \o DurationsFrom(items, i + 1)

extract_durations(r) ==
    IF StepsError(r) # "none" THEN ReturnError(StepsError(r))
    ELSE IF \E i \in DOMAIN StepsItems(r) : StepsItems(r)[i].type # "str"
    THEN ReturnError("TypeError")
    ELSE ReturnJson(DurationsFrom(StepsItems(r), 1))

(***************************************************************************)
(* The inputs.                                                             *)
(***************************************************************************)
\* pieces the step texts are put together from
Fragments ==
    {<<"c", "h", "o", "p">>, <<"B", "a", "k", "e">>, <<"s">>, <<" ">>,
     <<"1", "0">>, <<"-", "1", "5", " ">>, <<"0">>,
     <<"m", "i", "n", "u", "t", "e", "s">>, <<"H", "r">>, <<"h", "o", "u", "r">>}

RECURSIVE Concat(_)
\* the pieces of fs written one after the other
Concat(fs) == IF Len(fs) = 0 THEN <<>> ELSE fs[1] \o Concat(Tail(fs))

RECURSIVE Sum(_)
Sum(ns) == IF Len(ns) = 0 THEN 0 ELSE ns[1] + Sum(Tail(ns))

\* the step list that gives the first lens[1] pieces of fs to step 1, the
\* next lens[2] to step 2, and so on
StepsOf(fs, lens) ==
    [i \in DOMAIN lens |->
        Str(Concat(SubSeq(fs, Sum(SubSeq(lens, 1, i - 1)) + 1,
                          Sum(SubSeq(lens, 1, i)))))]

\* a JSON object with a "steps" list
Recipe(steps) == [json |-> "object", has_steps |-> TRUE, steps_type |-> "list",
                  steps |-> steps, steps_str |-> <<>>]

\* documents that are no Recipe: not JSON, not an object, no "steps",
\* "steps" a number, "steps" a string, a step that is no string
MalformedRecipes ==
    {[json |-> "invalid", has_steps |-> FALSE, steps_type |-> "none",
      steps |-> <<>>, steps_str |-> <<>>],
     [json |-> "array", has_steps |-> FALSE, steps_type |-> "none",
      steps |-> <<>>, steps_str |-> <<>>],
     [json |-> "object", has_steps |-> FALSE, steps_type |-> "none",
      steps |-> <<>>, steps_str |-> <<>>],
     [json |-> "object", has_steps |-> TRUE, steps_type |-> "num",
      steps |-> <<>>, steps_str |-> <<>>],
     [json |-> "object", has_steps |-> TRUE, steps_type |-> "str",
      steps |-> <<>>, steps_str |-> <<"c", "h", "o", "p", " ", "5", " ", "m", "i", "n">>],
     Recipe(<<Num>>),
     Recipe(<<Str(<<"c", "h", "o", "p", " ", "5", " ", "m", "i", "n">>), Num>>)}

\* a Recipe-shaped document, as far as the annotators read it
IsRecipe(r) ==
    /\ r.json = "object"
    /\ r.has_steps
    /\ r.steps_type = "list"
    /\ \A i \in DOMAIN r.steps : r.steps[i].type = "str"

(***************************************************************************)
(* The annotators called on one document.                                  *)
(***************************************************************************)
NoIngredients == [json |-> "list", items |-> <<>>]

NoText == [kind |-> "none"]

\* a document that is no Recipe, a Recipe whose one step is the empty string,
\* or a Recipe of at most MaxSteps steps put together from at most MaxFrags
\* fragments in all
RecipeInput(r) ==
    \/ r \in MalformedRecipes
    \/ r = Recipe(<<Str(<<>>)>>)
    \/ \E n \in 0..MaxSteps :
          \E lens \in [1..n -> 1..MaxFrags] :
             /\ Sum(lens) <= MaxFrags
             /\ \E fs \in [1..Sum(lens) -> Fragments] :
                   r = Recipe(StepsOf(fs, lens))

Init ==
    /\ RecipeInput(recipe_json_str)
    /\ ingredients_json = NoIngredients
    /\ actions = NotCalled
    /\ durations = NotCalled
    /\ prompt = NotCalled
    /\ task = "none"
    /\ text = NoText

IdentifyCookingActions ==
    /\ actions.outcome = "not_called"
    /\ actions' = identify_cooking_actions(recipe_json_str)
    /\ UNCHANGED <<recipe_json_str, ingredients_json, durations, prompt, task, text>>

ExtractDurations ==
    /\ durations.outcome = "not_called"
    /\ durations' = extract_durations(recipe_json_str)
    /\ UNCHANGED <<recipe_json_str, ingredients_json, actions, prompt, task, text>>

Next == IdentifyCookingActions \/ ExtractDurations

Spec == Init /\ [][Next]_vars

(***************************************************************************)
(* generate_video_prompt.                                                  *)
(***************************************************************************)
\* main_action = "cooking"
cooking == <<"c", "o", "o", "k", "i", "n", "g">>

\* the phrase used when relevant_ingredients is empty
all_necessary_ingredients ==
    <<"a", "l", "l", " ", "n", "e", "c", "e", "s", "s", "a", "r", "y", " ",
      "i", "n", "g", "r", "e", "d", "i", "e", "n", "t", "s">>

\* MainAction without the break: the last verb of the list found wins
MainActionNoBreak(step) ==
    LET s == Lower(step)
        hits == {k \in DOMAIN prompt_cooking_verbs : Contains(s, prompt_cooking_verbs[k])}
    IN  IF hits = {} THEN cooking
        ELSE prompt_cooking_verbs[CHOOSE k \in hits : \A h \in hits : k >= h]

\* the loop over cooking_verbs with its break: the first verb of the list
\* that is a substring of step.lower(), else "cooking"
MainAction(step) ==
    LET s == Lower(step)
        hits == {k \in DOMAIN prompt_cooking_verbs : Contains(s, prompt_cooking_verbs[k])}
    IN  IF hits = {} THEN cooking
        ELSE prompt_cooking_verbs[CHOOSE k \in hits : \A h \in hits : k <= h]

\* ingredient.get("name", "")
NameOf(ingredient) == IF ingredient.has_name THEN ingredient.name ELSE <<>>

\* RelevantIngredients testing the names against step, not step.lower()
RelevantIngredientsStepAsWritten(step, items) ==
    LET ingredient_name == [i \in DOMAIN items |-> Lower(NameOf(items[i]))]
        hit(n) == Contains(step, n)
    IN  SelectSeq(ingredient_name, hit)

\* the loop over ingredients: the lowercased names that are substrings of
\* step.lower(), in the order of the list
RelevantIngredients(step, items) ==
    LET s == Lower(step)
        ingredient_name == [i \in DOMAIN items |-> Lower(NameOf(items[i]))]
        hit(n) == Contains(s, n)
    IN  SelectSeq(ingredient_name, hit)

RECURSIVE Join(_, _)
\* sep.join(names)
Join(sep, names) ==
    IF Len(names) = 0 THEN <<>>
    ELSE IF Len(names) = 1 THEN names[1]
    ELSE names[1] \o sep \o Join(sep, Tail(names))

\* ", ".join(relevant_ingredients) if relevant_ingredients else "all necessary ingredients"
IngredientsList(relevant_ingredients) ==
    IF relevant_ingredients # <<>>
    THEN Join(<<",", " ">>, relevant_ingredients)
    ELSE all_necessary_ingredients

\* the exception json.loads, the for loop or ingredient.get(...).lower() raises
IngredientsError(j) ==
    IF j.json = "invalid" THEN "JSONDecodeError"
    ELSE IF j.json # "list" THEN "TypeError"
    ELSE IF \E i \in DOMAIN j.items :
               \/ j.items[i].type # "object"
               \/ j.items[i].has_name /\ j.items[i].name_type # "str"
    THEN "AttributeError"
    ELSE "none"

\* the f-string, by the three values it embeds; relevant_ingredients is the
\* local list the third one is rendered from
ReturnPrompt(main_action, step, relevant_ingredients) ==
    [outcome |-> "returned", type |-> "str", form |-> "prompt", error |-> "none",
     value |-> [main_action |-> main_action,
                step |-> step,
                ingredients_list |-> IngredientsList(relevant_ingredients),
                relevant_ingredients |-> relevant_ingredients]]

generate_video_prompt(step, step_number, j) ==
    IF IngredientsError(j) # "none" THEN ReturnError(IngredientsError(j))
    ELSE ReturnPrompt(MainAction(step), step, RelevantIngredients(step, j.items))

\* pieces the step handed to generate_video_prompt is put together from
PromptFragments ==
    {<<"c", "h", "o", "p">>, <<" ", "B", "a", "k", "e">>, <<"p", "o", "a", "c", "h">>,
     <<" ">>, <<"o", "n", "i", "o", "n">>, <<"S", "a", "l", "t">>}

\* a JSON object with a "name" string
Named(name) == [type |-> "object", has_name |-> TRUE, name_type |-> "str", name |-> name]

\* a JSON object without a "name"
Unnamed == [type |-> "object", has_name |-> FALSE, name_type |-> "none", name |-> <<>>]

IngredientRecords ==
    {Named(<<"O", "n", "i", "o", "n">>), Named(<<"s", "a", "l", "t">>), Unnamed}

\* a JSON list
Ingredients(items) == [json |-> "list", items |-> items]

\* documents json.loads or the loop over the ingredients fails on: not JSON,
\* null, an item that is a string, a name that is a number
UnreadableIngredients ==
    {[json |-> "invalid", items |-> <<>>],
     [json |-> "null", items |-> <<>>],
     Ingredients(<<[type |-> "str", has_name |-> FALSE, name_type |-> "none", name |-> <<>>]>>),
     Ingredients(<<[type |-> "object", has_name |-> TRUE, name_type |-> "num", name |-> <<>>]>>)}

\* a list of ingredient records that each carry a "name" string
IsIngredientList(j) ==
    /\ j.json = "list"
    /\ \A i \in DOMAIN j.items :
          /\ j.items[i].type = "object"
          /\ j.items[i].has_name
          /\ j.items[i].name_type = "str"

IngredientsInput(j) ==
    \/ j \in UnreadableIngredients
    \/ \E n \in 0..MaxIngredients :
          \E items \in [1..n -> IngredientRecords] : j = Ingredients(items)

\* one step of at most MaxPromptFrags fragments, and an ingredient list
InitPrompt ==
    /\ \E k \in 0..MaxPromptFrags :
          \E fs \in [1..k -> PromptFragments] :
             recipe_json_str = Recipe(<<Str(Concat(fs))>>)
    /\ IngredientsInput(ingredients_json)
    /\ actions = NotCalled
    /\ durations = NotCalled
    /\ prompt = NotCalled
    /\ task = "none"
    /\ text = NoText

\* generate_video_prompt called on step n of the recipe
GenerateVideoPrompt ==
    /\ prompt.outcome = "not_called"
    /\ IsRecipe(recipe_json_str)
    /\ \E n \in DOMAIN recipe_json_str.steps :
          prompt' = generate_video_prompt(recipe_json_str.steps[n].chars, n,
                                          ingredients_json)
    /\ UNCHANGED <<recipe_json_str, ingredients_json, actions, durations, task, text>>

NextPrompt == IdentifyCookingActions \/ GenerateVideoPrompt

SpecPrompt == InitPrompt /\ [][NextPrompt]_vars

(***************************************************************************)
(* recipe_video_crew: Process.sequential over extract_text_task,           *)
(* parse_recipe_task, analyze_recipe_task.  A task ends with what its      *)
(* agent's tool returned, and the next task is given that as its context.  *)
(***************************************************************************)
\* "Error parsing recipe: ...", which is no JSON
ParseErrorMessage ==
    [json |-> "invalid", has_steps |-> FALSE, steps_type |-> "none",
     steps |-> <<>>, steps_str |-> <<>>]

NoRecipe ==
    [json |-> "none", has_steps |-> FALSE, steps_type |-> "none",
     steps |-> <<>>, steps_str |-> <<>>]

InitCrew ==
    /\ task = "extract_text_task"
    /\ text = NoText
    /\ recipe_json_str = NoRecipe
    /\ ingredients_json = NoIngredients
    /\ actions = NotCalled
    /\ durations = NotCalled
    /\ prompt = NotCalled

\* extract_text_from_image: the OCR text, or "Error extracting text: ..."
\* returned from the except branch
ExtractTextTask ==
    /\ task = "extract_text_task"
    /\ text' \in {[kind |-> "ocr_text"], [kind |-> "error_message"]}
    /\ task' = "parse_recipe_task"
    /\ UNCHANGED <<recipe_json_str, ingredients_json, actions, durations, prompt>>

\* parse_recipe_text: whatever text it is given is posted; the reply's
\* message content is returned as it is, or "Error parsing recipe: ..."
\* from the except branch
ParseRecipeTask ==
    /\ task = "parse_recipe_task"
    /\ \/ recipe_json_str' = ParseErrorMessage
       \/ RecipeInput(recipe_json_str')
    /\ task' = "analyze_recipe_task"
    /\ UNCHANGED <<ingredients_json, actions, durations, prompt, text>>

\* the analysis task: both annotators on the parse task's output
AnalyzeRecipeTask ==
    /\ task = "analyze_recipe_task"
    /\ actions' = identify_cooking_actions(recipe_json_str)
    /\ durations' = extract_durations(recipe_json_str)
    /\ task' = "finished"
    /\ UNCHANGED <<recipe_json_str, ingredients_json, prompt, text>>

NextCrew == ExtractTextTask \/ ParseRecipeTask \/ AnalyzeRecipeTask

SpecCrew == InitCrew /\ [][NextCrew]_vars

(***************************************************************************)
(* Vocabulary of the properties.                                           *)
(***************************************************************************)
Min(S) == CHOOSE k \in S : \A h \in S : k <= h

\* a equals b up to the case of the letters
SameIgnoringCase(a, b) ==
    /\ Len(a) = Len(b)
    /\ \A i \in 1..Len(a) : LowerChar(a[i]) = LowerChar(b[i])

\* needle occurs in hay as a substring, up to the case of the letters
OccursIgnoringCase(hay, needle) ==
    \E i \in 0..(Len(hay) - Len(needle)) :
        SameIgnoringCase(Slice(hay, i, i + Len(needle)), needle)

RECURSIVE WordRunEnd(_, _)
\* the offset after the run of word characters that starts at offset p
WordRunEnd(s, p) ==
    IF p < Len(s) /\ IsWordChar(s[p + 1]) THEN WordRunEnd(s, p + 1) ELSE p

\* the words of s, lowercased: its maximal runs of word characters
WordsOf(s) ==
    {Lower(Slice(s, p, WordRunEnd(s, p))) :
        p \in {q \in 0..(Len(s) - 1) :
                 /\ IsWordChar(s[q + 1])
                 /\ q = 0 \/ ~IsWordChar(s[q])}}

\* the position of a verb in the 26-term vocabulary
VocabIndex(v) == CHOOSE k \in DOMAIN cooking_verbs : cooking_verbs[k] = v

RECURSIVE LetterRunEnd(_, _)
\* the offset after the run of letters that starts at offset p
LetterRunEnd(s, p) ==
    IF p < Len(s) /\ s[p + 1] \in Range(LowerChars) \cup UpperSet
    THEN LetterRunEnd(s, p + 1)
    ELSE p

HourUnits == {time_units[k] : k \in 5..8}

MinuteUnits == {time_units[k] : k \in 1..4}

\* the tags of seq that carry step number i, in their order
TagsOfStep(seq, i) == LET of_i(t) == t.step_number = i IN SelectSeq(seq, of_i)

\* whether the tool has returned
Called(r) == r.outcome # "not_called"

(***************************************************************************)
(* C1.  generate_video_prompt: main_action is the first term of the        *)
(* 26-term vocabulary, in its order, that occurs as a substring of the     *)
(* lowercased step, and "cooking" only when none of the 26 occurs.         *)
(***************************************************************************)
C1_MainActionFirstOfVocabulary ==
    prompt.form = "prompt" =>
        LET s == Lower(prompt.value.step)
            hits == {k \in DOMAIN cooking_verbs : Contains(s, cooking_verbs[k])}
        IN  prompt.value.main_action =
                IF hits = {} THEN cooking ELSE cooking_verbs[Min(hits)]

(***************************************************************************)
(* C2.  extract_durations: when the unit of a duration expression is       *)
(* written as a complete word of the unit set, original_text is the whole  *)
(* expression, from the first integer through the last character of the    *)
(* unit word.                                                              *)
(***************************************************************************)
C2_OriginalTextWholeExpression ==
    (durations.form = "json" /\ IsRecipe(recipe_json_str)) =>
        \A i \in DOMAIN recipe_json_str.steps :
            LET step == recipe_json_str.steps[i].chars
                ms == FindIter(step)
                tags == TagsOfStep(durations.value, i)
            IN  \A k \in DOMAIN ms :
                    LET word_end == LetterRunEnd(step, ms[k].g2_start)
                        word == Lower(Slice(step, ms[k].g2_start, word_end))
                    IN  word \in HourUnits \cup MinuteUnits =>
                            /\ k \in DOMAIN tags
                            /\ tags[k].original_text = Slice(step, ms[k].start, word_end)

(***************************************************************************)
(* C3.  extract_durations: duration_minutes of every emitted tag is        *)
(* strictly greater than 0.                                                *)
(***************************************************************************)
C3_DurationPositive ==
    durations.form = "json" =>
        \A k \in DOMAIN durations.value : durations.value[k].duration_minutes > 0

(***************************************************************************)
(* C4.  identify_cooking_actions, extract_durations: on an input that is   *)
(* no Recipe the call ends in a failure handed to the caller; it does not  *)
(* return a value of the kind a successful call returns (a str).           *)
(***************************************************************************)
C4_InvalidRecipeFails ==
    ~IsRecipe(recipe_json_str) =>
        /\ Called(actions) => ~(actions.outcome = "returned" /\ actions.type = "str")
        /\ Called(durations) => ~(durations.outcome = "returned" /\ durations.type = "str")

(***************************************************************************)
(* C5.  identify_cooking_actions: the output is exactly the tags (verb,    *)
(* 1-based step number, the step verbatim) of the pairs where the verb of  *)
(* the 26-term vocabulary is a whole word of the step up to case; one tag  *)
(* per pair, none for a step without such a verb, ordered by step number   *)
(* and then by vocabulary order.                                           *)
(***************************************************************************)
C5_ActionTagsExact ==
    (Called(actions) /\ IsRecipe(recipe_json_str)) =>
        LET steps == recipe_json_str.steps
            tags == actions.value
        IN  /\ actions.form = "json"
            /\ \A j \in DOMAIN tags : tags[j].step_number \in DOMAIN steps
            /\ \A j \in DOMAIN tags : \A h \in DOMAIN tags :
                  j < h => tags[j].step_number <= tags[h].step_number
            /\ \A i \in DOMAIN steps :
                  LET words == WordsOf(steps[i].chars)
                      is_word(v) == v \in words
                      verbs == SelectSeq(cooking_verbs, is_word)
                  IN  TagsOfStep(tags, i) =
                          [k \in DOMAIN verbs |->
                              [action |-> verbs[k], step_number |-> i,
                               full_instruction |-> steps[i].chars]]

\* "chop" then "bake" tagged in one step, which names them in the other order
C5_Witness ==
    /\ actions.form = "json"
    /\ IsRecipe(recipe_json_str)
    /\ Len(actions.value) = 2
    /\ actions.value[1].action = cooking_verbs[1]
    /\ actions.value[2].action = cooking_verbs[11]
    /\ actions.value[1].step_number = actions.value[2].step_number
    /\ StartsWith(actions.value[1].full_instruction, <<"B", "a", "k", "e">>)

(***************************************************************************)
(* C6.  extract_durations: duration_minutes of every match is its first    *)
(* integer, times 60 when the unit is an hour unit, unchanged when it is a *)
(* minute unit; the upper bound of a range has no part in it.              *)
(***************************************************************************)
C6_DurationFromFirstInteger ==
    (durations.form = "json" /\ IsRecipe(recipe_json_str)) =>
        \A i \in DOMAIN recipe_json_str.steps :
            LET step == recipe_json_str.steps[i].chars
                ms == FindIter(step)
                tags == TagsOfStep(durations.value, i)
            IN  /\ Len(tags) = Len(ms)
                /\ \A k \in DOMAIN ms :
                      LET first == IntOf(Slice(step, ms[k].start, ms[k].g1_end))
                          unit == Lower(Slice(step, ms[k].g2_start, ms[k].end))
                          word == Lower(Slice(step, ms[k].g2_start,
                                              LetterRunEnd(step, ms[k].g2_start)))
                          minutes == tags[k].duration_minutes
                      IN  /\ unit \in HourUnits => minutes = first * 60
                          /\ unit \in MinuteUnits => minutes = first
                          /\ word \in HourUnits => minutes = first * 60
                          /\ word \in MinuteUnits => minutes = first

\* a range with an hour unit: "10-15 hour" gives 600
C6_Witness ==
    /\ durations.form = "json"
    /\ \E k \in DOMAIN durations.value :
          /\ durations.value[k].duration_minutes = 600
          /\ Contains(durations.value[k].original_text, <<"-", "1", "5">>)

C8_MalformedIngredientsFail ==
    (Called(prompt) /\ ~IsIngredientList(ingredients_json)) => prompt.form # "prompt"

(***************************************************************************)
(* C9.  recipe_video_crew: the annotators are started only after the OCR   *)
(* succeeded and the parse stage produced a structurally valid Recipe.     *)
(***************************************************************************)
C9_AnnotatorsOnlyOnValidRecipe ==
    (Called(actions) \/ Called(durations)) =>
        /\ text.kind = "ocr_text"
        /\ IsRecipe(recipe_json_str)

(***************************************************************************)
(* C10.  For a step that identify_cooking_actions tags with a verb of      *)
(* generate_video_prompt's own list, main_action of the same step is not   *)
(* "cooking" and stands no later in the vocabulary than any such verb.     *)
(***************************************************************************)
C10_MainActionNoLaterThanTaggedVerb ==
    (actions.form = "json" /\ prompt.form = "prompt") =>
        \A j \in DOMAIN actions.value :
            LET t == actions.value[j]
            IN  (t.full_instruction = prompt.value.step
                 /\ t.action \in Range(prompt_cooking_verbs)) =>
                    /\ prompt.value.main_action # cooking
                    /\ prompt.value.main_action \in Range(cooking_verbs)
                    /\ VocabIndex(prompt.value.main_action) <= VocabIndex(t.action)

\* the converse fails: "bake" is the one tagged verb, and main_action is
\* "chop", found inside a longer word
C10_Witness ==
    /\ actions.form = "json"
    /\ prompt.form = "prompt"
    /\ Len(actions.value) = 1
    /\ actions.value[1].action = cooking_verbs[11]
    /\ prompt.value.main_action = cooking_verbs[1]

====
